---- MODULE Spec2Model ----
(***************************************************************************)
(* A model of the LC-3 virtual machine of src/vm.c: the register file, the *)
(* memory array with its memory-mapped keyboard cell, the image loader,    *)
(* the instruction handlers, the trap routines and the loop of main().     *)
(*                                                                         *)
(* A machine state is a record                                             *)
(*   [memory, reg, running, stdin, eof, stdout]                            *)
(* and every C function is an operator from machine states to machine      *)
(* states, composed in the order the C code calls them.  The actions of    *)
(* the specification are the steps of main(): loading one argument,        *)
(* starting the loop, one iteration of the loop per opcode, and the exit.  *)
(***************************************************************************)
EXTENDS Integers, Sequences, FiniteSets, TLC

VARIABLES
    memory,     \* uint16_t memory[UINT16_MAX], kept sparse: absent cells are 0
    reg,        \* uint16_t reg[R_COUNT]
    running,    \* int running
    stdin,      \* the bytes the console has ready to be read
    eof,        \* the console input has been closed
    stdout,     \* the bytes written to the console so far
    phase,      \* where main() is: "args", "loop", "exit" or "aborted"
    instr,      \* main's local instr: the word fetched by the last iteration
    steps,      \* number of loop iterations made so far
    argn,       \* number of image arguments processed so far
    image,      \* the file named by the argument processed last
    loaded,     \* what read_image returned for it
    keys        \* number of bytes typed so far

vars == <<memory, reg, running, stdin, eof, stdout, phase, instr, steps,
          argn, image, loaded, keys>>

----------------------------------------------------------------------------
(* Bounds of the model *)

\* loop iterations explored
MaxSteps == 6
\* image arguments given to main
MaxArgs == 1
\* bytes typed on the console
MaxKeys == 1

----------------------------------------------------------------------------
(* Words and bit operations *)

\* 2^16: uint16_t arithmetic wraps modulo this
WORD == 65536
\* UINT16_MAX, the declared length of the memory array
UINT16_MAX == 65535

Word(x) == x % WORD

RECURSIVE BitAnd(_, _, _)
BitAnd(a, b, n) ==
    IF n = 0 \/ a = 0 \/ b = 0 THEN 0
    ELSE ((a % 2) * (b % 2)) + 2 * BitAnd(a \div 2, b \div 2, n - 1)

RECURSIVE BitOr(_, _, _)
BitOr(a, b, n) ==
    IF n = 0 THEN 0
    ELSE IF a = 0 THEN b
    ELSE IF b = 0 THEN a
    ELSE (IF (a % 2) + (b % 2) > 0 THEN 1 ELSE 0)
         + 2 * BitOr(a \div 2, b \div 2, n - 1)

\* C's  a & b  and  a | b  on non-negative int values
And(a, b) == BitAnd(a, b, 31)
Or(a, b) == BitOr(a, b, 31)
\* C's  x >> n  and  x << n  on int-promoted operands
Shr(x, n) == x \div (2 ^ n)
Shl(x, n) == x * (2 ^ n)
\* C's  ~x  stored back into a uint16_t
Not16(x) == (WORD - 1) - x

----------------------------------------------------------------------------
(* Registers, opcodes, trap codes, flags *)

R_R0 == 0
R_R7 == 7
R_PC == 8
R_COND == 9
R_COUNT == 10

OP_BR == 0
OP_ADD == 1
OP_LD == 2
OP_ST == 3
OP_JSR == 4
OP_AND == 5
OP_LDR == 6
OP_STR == 7
OP_RTI == 8
OP_NOT == 9
OP_LDI == 10
OP_STI == 11
OP_JMP == 12
OP_RES == 13
OP_LEA == 14
OP_TRAP == 15

TRAP_GETC == 32
TRAP_OUT == 33
TRAP_PUTS == 34
TRAP_IN == 35
TRAP_PUTSP == 36
TRAP_HALT == 37

FL_POS == 1
FL_ZRO == 2
FL_NEG == 4

\* 0xFE00, keyboard status and keyboard data: one address for both
MR_KBSR == 65024
MR_KBDR == 65024

\* 0x3000
PC_START == 12288

\* getchar()'s EOF
EOF == -1

----------------------------------------------------------------------------
(* The machine state the C functions act on *)

Machine ==
    [memory |-> memory, reg |-> reg, running |-> running,
     stdin |-> stdin, eof |-> eof, stdout |-> stdout]

\* memory[a] of the zero-initialised array
Get(mem, a) == IF a \in DOMAIN mem THEN mem[a] ELSE 0

\* the array after  memory[a] = v  (cells holding 0 are not stored)
Put(mem, a, v) ==
    IF v = 0 THEN [x \in (DOMAIN mem) \ {a} |-> mem[x]]
    ELSE [x \in (DOMAIN mem) \cup {a} |-> IF x = a THEN v ELSE mem[x]]

(***************************************************************************)
(* memory has UINT16_MAX = 65535 elements, so memory[65535] is one past    *)
(* the array.  What such an access does depends on what the build places   *)
(* behind the array.  A read yields any word of OobWords.  A write is      *)
(* lost to the model ("lost": padding or an object not modelled), lands in *)
(* reg[0] ("reg") or lands in the low half of running ("running").  One    *)
(* loop iteration draws one choice o = [rd, wr] for its accesses.          *)
(***************************************************************************)
\* 0, x8000 (an RTI word) and xF025 (TRAP HALT)
OobWords == {0, 32768, 61477}
OobWrites == {"lost", "reg", "running"}
Oracle == [rd : OobWords, wr : OobWrites]

InArray(a) == a < UINT16_MAX

----------------------------------------------------------------------------
(* Console *)

\* select() reports stdin readable when a byte is pending or at end of file
check_key(m) == m.stdin # <<>> \/ m.eof

\* getchar(): the value returned, and the machine afterwards
getchar(m) ==
    IF m.stdin # <<>>
    THEN [m |-> [m EXCEPT !.stdin = Tail(@)], val |-> Head(m.stdin)]
    ELSE [m |-> m, val |-> EOF]

\* getchar() waits while nothing is pending and the input is still open
WouldBlock(m) == m.stdin = <<>> /\ ~m.eof

putc(m, c) == [m EXCEPT !.stdout = Append(@, c % 256)]

RECURSIVE printf(_, _)
printf(m, s) == IF s = <<>> THEN m ELSE printf(putc(m, Head(s)), Tail(s))

\* char is signed on the hosts this program builds for (unix, termios):
\* the value a char variable holds after  char c = <int>
ToChar(x) == LET b == x % 256 IN IF b >= 128 THEN b - 256 ELSE b

MsgUsage == <<108, 99, 51, 32, 91, 105, 109, 97, 103, 101, 45, 102, 105, 108, 101, 49, 93, 32, 46, 46, 46, 10>>
MsgFailed == <<102, 97, 105, 108, 101, 100, 32, 116, 111, 32, 108, 111, 97, 100, 32, 105, 109, 97, 103, 101, 58, 32, 10>>
MsgPrompt == <<69, 110, 116, 101, 114, 32, 97, 32, 99, 104, 97, 114, 97, 99, 116, 101, 114, 58, 32>>
MsgHalt == <<72, 65, 76, 84, 10>>

----------------------------------------------------------------------------
(* Memory access *)

mem_write(m, address, val, o) ==
    LET a == Word(address) IN
    IF InArray(a) THEN [m EXCEPT !.memory = Put(@, a, val)]
    ELSE CASE o.wr = "lost" -> m
           [] o.wr = "reg" -> [m EXCEPT !.reg[R_R0] = val]
           [] o.wr = "running" -> [m EXCEPT !.running = val]

mem_read(m, address, o) ==
    LET a == Word(address) IN
    IF a = MR_KBSR
    THEN IF check_key(m)
         THEN LET m1 == [m EXCEPT !.memory = Put(@, MR_KBSR, Shl(1, 15))]
                  c == getchar(m1)
                  m2 == [c.m EXCEPT !.memory = Put(@, MR_KBDR, Word(c.val))]
              IN [m |-> m2, val |-> Get(m2.memory, a)]
         ELSE LET m1 == [m EXCEPT !.memory = Put(@, MR_KBSR, 0)]
              IN [m |-> m1, val |-> Get(m1.memory, a)]
    ELSE IF InArray(a) THEN [m |-> m, val |-> Get(m.memory, a)]
    ELSE [m |-> m, val |-> o.rd]

----------------------------------------------------------------------------
(* Word/bit utilities *)

sign_extend(x, bit_count) ==
    IF And(Shr(x, bit_count - 1), 1) # 0
    THEN Word(Or(x, Shl(65535, bit_count)))
    ELSE x

update_flags(m, r) ==
    IF m.reg[r] = 0 THEN [m EXCEPT !.reg[R_COND] = FL_ZRO]
    ELSE IF Shr(m.reg[r], 15) # 0 THEN [m EXCEPT !.reg[R_COND] = FL_NEG]
    ELSE [m EXCEPT !.reg[R_COND] = FL_POS]

----------------------------------------------------------------------------
(* Instruction handlers: the machine after the handler has run on instr *)

\* add with the immediate taken unextended
add_imm_unsigned(m, i) ==
    LET r0 == And(Shr(i, 9), 7)
        r1 == And(Shr(i, 6), 7)
        imm_flag == And(Shr(i, 5), 1)
        m1 == IF imm_flag # 0
              THEN [m EXCEPT !.reg[r0] = Word(m.reg[r1] + And(i, 31))]
              ELSE LET r2 == And(i, 7)
                   IN [m EXCEPT !.reg[r0] = Word(m.reg[r1] + m.reg[r2])]
    IN update_flags(m1, r0)

add(m, i) ==
    LET r0 == And(Shr(i, 9), 7)
        r1 == And(Shr(i, 6), 7)
        imm_flag == And(Shr(i, 5), 1)
        m1 == IF imm_flag # 0
              THEN LET imm5 == sign_extend(And(i, 31), 5)
                   IN [m EXCEPT !.reg[r0] = Word(m.reg[r1] + imm5)]
              ELSE LET r2 == And(i, 7)
                   IN [m EXCEPT !.reg[r0] = Word(m.reg[r1] + m.reg[r2])]
    IN update_flags(m1, r0)

and(m, i) ==
    LET r0 == And(Shr(i, 9), 7)
        r1 == And(Shr(i, 6), 7)
        imm_flag == And(Shr(i, 5), 1)
        m1 == IF imm_flag # 0
              THEN LET imm5 == sign_extend(And(i, 31), 5)
                   IN [m EXCEPT !.reg[r0] = Word(m.reg[r1] + imm5)]
              ELSE LET r2 == And(i, 7)
                   IN [m EXCEPT !.reg[r0] = Word(m.reg[r1] + m.reg[r2])]
    IN update_flags(m1, r0)

not(m, i) ==
    LET r0 == And(Shr(i, 9), 7)
        r1 == And(Shr(i, 6), 7)
    IN update_flags([m EXCEPT !.reg[r0] = Not16(m.reg[r1])], r0)

\* the value br passes to sign_extend: instr * 0x1FF as a uint16_t
br_offset_field(i) == Word(i * 511)

br(m, i) ==
    LET pc_offset == sign_extend(br_offset_field(i), 9)
        cond_flag == And(Shr(i, 9), 7)
    IN IF And(cond_flag, m.reg[R_COND]) # 0
       THEN [m EXCEPT !.reg[R_PC] = Word(@ + pc_offset)]
       ELSE m

jmp(m, i) ==
    LET r1 == And(Shr(i, 6), 7)
    IN [m EXCEPT !.reg[R_PC] = m.reg[r1]]

\* jsr that reads BaseR before it saves the return address in R7
jsr_base_first(m, i) ==
    LET long_flag == And(Shr(i, 11), 1)
        m1 == [m EXCEPT !.reg[R_R7] = m.reg[R_PC]]
    IN IF long_flag # 0
       THEN LET long_pc_offset == sign_extend(And(i, 2047), 11)
            IN [m1 EXCEPT !.reg[R_PC] = Word(@ + long_pc_offset)]
       ELSE LET r1 == And(Shr(i, 6), 7)
            IN [m1 EXCEPT !.reg[R_PC] = m.reg[r1]]

jsr(m, i) ==
    LET long_flag == And(Shr(i, 11), 1)
        m1 == [m EXCEPT !.reg[R_R7] = m.reg[R_PC]]
    IN IF long_flag # 0
       THEN LET long_pc_offset == sign_extend(And(i, 2047), 11)
            IN [m1 EXCEPT !.reg[R_PC] = Word(@ + long_pc_offset)]
       ELSE LET r1 == And(Shr(i, 6), 7)
            IN [m1 EXCEPT !.reg[R_PC] = m1.reg[r1]]

ld(m, i, o) ==
    LET r0 == And(Shr(i, 9), 7)
        pc_offset == sign_extend(And(i, 511), 9)
        rd == mem_read(m, m.reg[R_PC] + pc_offset, o)
    IN update_flags([rd.m EXCEPT !.reg[r0] = rd.val], r0)

\* ldi that stops at the first cell, as ld does
ldi_single_read(m, i, o) ==
    LET r0 == And(Shr(i, 9), 7)
        pc_offset == sign_extend(And(i, 511), 9)
        rd == mem_read(m, m.reg[R_PC] + pc_offset, o)
    IN update_flags([rd.m EXCEPT !.reg[r0] = rd.val], r0)

ldi(m, i, o) ==
    LET r0 == And(Shr(i, 9), 7)
        pc_offset == sign_extend(And(i, 511), 9)
        rd1 == mem_read(m, m.reg[R_PC] + pc_offset, o)
        rd2 == mem_read(rd1.m, rd1.val, o)
    IN update_flags([rd2.m EXCEPT !.reg[r0] = rd2.val], r0)

ldr(m, i, o) ==
    LET r0 == And(Shr(i, 9), 7)
        r1 == And(Shr(i, 6), 7)
        offset == sign_extend(And(i, 63), 6)
        rd == mem_read(m, m.reg[r1] + offset, o)
    IN update_flags([rd.m EXCEPT !.reg[r0] = rd.val], r0)

lea(m, i) ==
    LET r0 == And(Shr(i, 9), 7)
        pc_offset == sign_extend(And(i, 511), 9)
    IN update_flags([m EXCEPT !.reg[r0] = Word(m.reg[R_PC] + pc_offset)], r0)

\* the arguments of mem_write are evaluated before the call; the order of
\* the two is unspecified, and only mem_read has an effect: reg[r0] is the
\* same read before or after it
st(m, i, o) ==
    LET r0 == And(Shr(i, 9), 7)
        pc_offset == sign_extend(And(i, 511), 9)
        rd == mem_read(m, m.reg[R_PC] + pc_offset, o)
    IN mem_write(rd.m, rd.val, rd.m.reg[r0], o)

str(m, i, o) ==
    LET r0 == And(Shr(i, 9), 7)
        r1 == And(Shr(i, 6), 7)
        pc_offset == sign_extend(And(i, 63), 6)
    IN mem_write(m, m.reg[r1] + pc_offset, m.reg[r0], o)

----------------------------------------------------------------------------
(* Trap routines *)

\* trap_getc that updates the flags from the character read
trap_getc_sets_flags(m) ==
    LET c == getchar(m)
    IN update_flags([c.m EXCEPT !.reg[R_R0] = Word(c.val)], R_R0)

trap_getc(m) ==
    LET c == getchar(m)
    IN [c.m EXCEPT !.reg[R_R0] = Word(c.val)]

trap_out(m) == putc(m, m.reg[R_R0])

trap_in(m) ==
    LET m1 == printf(m, MsgPrompt)
        g == getchar(m1)
        c == ToChar(g.val)
        m2 == putc(g.m, c)
    IN [m2 EXCEPT !.reg[R_R0] = Word(c)]

(***************************************************************************)
(* trap_puts and trap_putsp walk a pointer c = memory + reg[R_R0] upwards  *)
(* until *c is 0.  The pointer does not wrap: past memory[65534] it reads  *)
(* what lies behind the array, modelled as one word o.rd followed by a 0.  *)
(***************************************************************************)
RECURSIVE puts_loop(_, _, _)
puts_loop(m, c, o) ==
    IF InArray(c)
    THEN IF Get(m.memory, c) = 0 THEN m
         ELSE puts_loop(putc(m, Get(m.memory, c)), c + 1, o)
    ELSE IF o.rd = 0 THEN m ELSE putc(m, o.rd)

\* trap_puts with an if for the while: at most one character is written
trap_puts_one_char(m, o) ==
    IF Get(m.memory, m.reg[R_R0]) = 0 THEN m
    ELSE putc(m, Get(m.memory, m.reg[R_R0]))

trap_puts(m, o) == puts_loop(m, m.reg[R_R0], o)

putsp_word(m, w) ==
    LET char1 == And(w, 255)
        m1 == putc(m, char1)
        char2 == ToChar(Shr(w, 8))
    IN IF char2 # 0 THEN putc(m1, char2) ELSE m1

RECURSIVE putsp_loop(_, _, _)
putsp_loop(m, c, o) ==
    IF InArray(c)
    THEN IF Get(m.memory, c) = 0 THEN m
         ELSE putsp_loop(putsp_word(m, Get(m.memory, c)), c + 1, o)
    ELSE IF o.rd = 0 THEN m ELSE putsp_word(m, o.rd)

trap_putsp(m, o) == putsp_loop(m, m.reg[R_R0], o)

\* trap_halt that leaves the running flag set
trap_halt_still_running(m) == printf(m, MsgHalt)

trap_halt(m) == [printf(m, MsgHalt) EXCEPT !.running = 0]

trap(m, i, o) ==
    LET v == And(i, 255) IN
    CASE v = TRAP_GETC -> trap_getc(m)
      [] v = TRAP_OUT -> trap_out(m)
      [] v = TRAP_PUTS -> trap_puts(m, o)
      [] v = TRAP_IN -> trap_in(m)
      [] v = TRAP_PUTSP -> trap_putsp(m, o)
      [] v = TRAP_HALT -> trap_halt(m)
      [] OTHER -> m

\* the trap routines that call getchar() wait for the console
TrapWaits(m, i) == And(i, 255) \in {TRAP_GETC, TRAP_IN} /\ WouldBlock(m)

----------------------------------------------------------------------------
(* Image loader *)

swap16(x) == Word(Or(Shl(x, 8), Shr(x, 8)))

\* what fopen finds under a path: no file, or a stream of bytes
NoFile == [open |-> FALSE, bytes |-> <<>>]
File(bytes) == [open |-> TRUE, bytes |-> bytes]

\* the uint16_t that fread stores for the k-th pair of bytes (k from 0) of
\* the stream, on a little-endian host
RawWord(file, k) == file[2 * k + 1] + 256 * file[2 * k + 2]

(***************************************************************************)
(* A stream shorter than one word leaves origin unset; the second fread    *)
(* then reads no item whatever origin holds, so memory is left as it is.   *)
(***************************************************************************)
read_image_file(m, file) ==
    IF Len(file) < 2 THEN m
    ELSE
    LET origin == swap16(RawWord(file, 0))
        max_read == Word(UINT16_MAX - origin)
        avail == (Len(file) - 2) \div 2
        read == IF avail < max_read THEN avail ELSE max_read
        span == origin .. (origin + read - 1)
        new(a) == swap16(RawWord(file, 1 + (a - origin)))
        dom == ((DOMAIN m.memory) \ span) \cup {a \in span : new(a) # 0}
    IN [m EXCEPT !.memory =
            [a \in dom |-> IF a \in span THEN new(a) ELSE m.memory[a]]]

\* the machine afterwards and the value returned
read_image(m, image_path) ==
    IF ~image_path.open THEN [m |-> m, ret |-> 0]
    ELSE [m |-> read_image_file(m, image_path.bytes), ret |-> 1]

----------------------------------------------------------------------------
(* The image files main() is given *)

\* the two bytes of a big-endian word
BE(w) == <<w \div 256, w % 256>>

RECURSIVE BEs(_)
BEs(ws) == IF ws = <<>> THEN <<>> ELSE BE(Head(ws)) \o BEs(Tail(ws))

\* an image file: the origin, then the words, all big-endian
Img(origin, ws) == File(BE(origin) \o BEs(ws))

\* x3000: ADD R0,R0,#1; HALT
ProgHalt == Img(12288, <<4129, 61477>>)
\* x3000: LD R1,#3; LD R2,#3; AND R0,R1,R2; HALT; x0F0F; x00FF
ProgAnd == Img(12288, <<8707, 9219, 20546, 61477, 3855, 255>>)
\* x3000: ADD R0,R0,#7; AND R0,R0,#3; HALT
ProgAndImm == Img(12288, <<4135, 20515, 61477>>)
\* x3000: ADD R0,R0,#1; BRnzp +1; HALT; HALT
ProgBr == Img(12288, <<4129, 3585, 61477, 61477>>)
\* x3000: ADD R0,R0,#-1; BRn -2; HALT
ProgBrBack == Img(12288, <<4159, 2558, 61477>>)
\* x3000: ADD R0,R0,#1; BRnz +1; HALT
ProgBrNot == Img(12288, <<4129, 3073, 61477>>)
\* x3000: ADD R0,R0,#5; STI R0,#1; HALT; x3010
ProgSti == Img(12288, <<4133, 45057, 61477, 12304>>)
\* x3000: ADD R0,R0,#5; ST R0,#1; HALT; x3010
ProgSt == Img(12288, <<4133, 12289, 61477, 12304>>)
\* x3000: TRAP xFF; ADD R0,R0,#1; HALT
ProgBadTrap == Img(12288, <<61695, 4129, 61477>>)
\* x3000: ADD R0,R0,#1; RTI; ADD R0,R0,#1
ProgRti == Img(12288, <<4129, 32768, 4129>>)
\* x3000: ADD R0,R0,#-1; (reserved); ADD R0,R0,#1
ProgRes == Img(12288, <<4159, 53248, 4129>>)
\* x3000: GETC; OUT; IN; HALT
ProgIo == Img(12288, <<61472, 61473, 61475, 61477>>)
\* x3000: LEA R0,#2; PUTS; HALT; 'H'; 'i'; 0
ProgPuts == Img(12288, <<57346, 61474, 61477, 72, 105, 0>>)
\* x3000: LEA R0,#2; PUTSP; HALT; 'Hi'; '!'
ProgPutsp == Img(12288, <<57346, 61476, 61477, 26952, 33>>)
\* x3000: ADD R0,R0,#-1; ADD R0,R0,R0; ADD R1,R0,#1; ADD R1,R1,R0; HALT
ProgAdd == Img(12288, <<4159, 4096, 4641, 4672, 61477>>)
\* x3000: ADD R0,R0,#-1; ADD R0,R0,#1; ADD R0,R0,#15; ADD R7,R0,R7; HALT
ProgAddZero == Img(12288, <<4159, 4129, 4143, 7687, 61477>>)
\* x3000: LEA R1,#4; LDR R2,R1,#0; NOT R3,R2; STR R3,R1,#1; HALT; x00FF
ProgLoad == Img(12288, <<57860, 25664, 38591, 30273, 61477, 255>>)
\* x3000: JSR +2; HALT; x3001; LDI R4,#-2; LD R5,#-3; JMP R7
ProgJump == Img(12288, <<18434, 61477, 12289, 43518, 11261, 49600>>)
\* x3000: ADD R7,R0,#3; JSRR R7; HALT
ProgJsrr == Img(12288, <<7715, 16832, 61477>>)
\* x3000: LDI R0,#1; HALT; xFE00
ProgKbd == Img(12288, <<40961, 61477, 65024>>)
\* x3000: ADD R0,R0,#-1; ADD R1,R1,#5; STR R1,R0,#0; LDR R2,R0,#0; JMP R0
ProgTop == Img(12288, <<4159, 4709, 29184, 25600, 49152>>)
\* x3000: LDI R0,#1; HALT; xFFFF
ProgLdiTop == Img(12288, <<40961, 61477, 65535>>)
\* x3000: ADD R0,R0,#-1; PUTS; HALT
ProgPutsTop == Img(12288, <<4159, 61474, 61477>>)
\* x0000: one word at address 0
ImgLow == Img(0, <<4129>>)
\* xFFFD: the last word lands on xFFFE
ImgFits == Img(65533, <<4369, 8738>>)
\* xFFFE: the last word lands on xFFFF
ImgLast == Img(65534, <<4369, 8738>>)
\* xFFFE: one word more than fits below x10000
ImgOver == Img(65534, <<4369, 8738, 13107>>)
\* x3001: HALT; 0: overlays the second and third word
ImgOverlay == Img(12289, <<61477, 0>>)
\* streams that hold no whole image: empty, one byte, an origin and a half
ImgEmpty == File(<<>>)
ImgByte == File(<<48>>)
ImgOdd == File(<<48, 0, 16>>)

Files ==
    {NoFile, ImgEmpty, ImgByte, ImgOdd,
     ProgHalt, ProgAnd, ProgAndImm, ProgBr, ProgBrBack, ProgBrNot, ProgSti,
     ProgSt, ProgBadTrap, ProgRti, ProgRes, ProgIo,
     ProgPuts, ProgPutsp, ProgAdd, ProgAddZero, ProgLoad, ProgJump,
     ProgJsrr, ProgKbd, ProgLdiTop, ProgPutsTop,
     ProgTop, ImgLow, ImgFits, ImgLast, ImgOver, ImgOverlay}

\* the bytes that can be typed: 'A', and one with the top bit set
Keys == {65, 200}

----------------------------------------------------------------------------
(* main() *)

Init ==
    /\ memory = <<>>
    /\ reg = [r \in 0 .. (R_COUNT - 1) |-> 0]
    /\ running = 0
    /\ stdin = <<>>
    /\ eof = FALSE
    /\ stdout = <<>>
    /\ phase = "args"
    /\ instr = 0
    /\ steps = 0
    /\ argn = 0
    /\ image = NoFile
    /\ loaded = 0
    /\ keys = 0

\* the machine variables take the values of machine state m
Set(m) ==
    /\ memory' = m.memory
    /\ reg' = m.reg
    /\ running' = m.running
    /\ stdin' = m.stdin
    /\ eof' = m.eof
    /\ stdout' = m.stdout

\* one pass of the for loop over argv: read_image, and the report if it failed
LoadArg ==
    /\ phase = "args"
    /\ argn < MaxArgs
    /\ \E f \in Files :
          LET r == read_image(Machine, f)
          IN /\ Set(IF r.ret = 0 THEN printf(r.m, MsgFailed) ELSE r.m)
             /\ image' = f
             /\ loaded' = r.ret
    /\ argn' = argn + 1
    /\ UNCHANGED <<phase, instr, steps, keys>>

\* the rest of main() up to the loop; the usage line is printed when no
\* image was named
Start ==
    /\ phase = "args"
    /\ LET m1 == IF argn = 0 THEN printf(Machine, MsgUsage) ELSE Machine
       IN Set([m1 EXCEPT !.reg[R_PC] = PC_START, !.running = 1])
    /\ phase' = "loop"
    /\ UNCHANGED <<instr, steps, argn, image, loaded, keys>>

\* a fetch that leaves PC at the word it has read
Fetch_no_increment(o) ==
    mem_read(Machine, reg[R_PC], o)

\* instr = mem_read(reg[R_PC]++): the increment is complete before the call
Fetch(o) ==
    mem_read([Machine EXCEPT !.reg[R_PC] = Word(@ + 1)], reg[R_PC], o)

\* a switch in which case OP_RTI breaks out instead of falling into abort()
Dispatched_rti_ignored(op) == IF op = OP_RES THEN "aborted" ELSE "loop"

\* where main() is after the switch: the default case calls abort()
Dispatched(op) == IF op \in {OP_RES, OP_RTI} THEN "aborted" ELSE "loop"

\* while(running) holds, and the word of fetch f selects case op of the switch
Turn(op, f) ==
    /\ phase = "loop"
    /\ running # 0
    /\ steps < MaxSteps
    /\ Shr(f.val, 12) = op

\* the iteration ends with the machine in state m
Finish(op, f, m) ==
    /\ Set(m)
    /\ instr' = f.val
    /\ steps' = steps + 1
    /\ phase' = Dispatched(op)
    /\ UNCHANGED <<argn, image, loaded, keys>>

ExecBR ==
    \E o \in Oracle :
        LET f == Fetch(o)
        IN /\ Turn(OP_BR, f)
           /\ Finish(OP_BR, f, br(f.m, f.val))

ExecADD ==
    \E o \in Oracle :
        LET f == Fetch(o)
        IN /\ Turn(OP_ADD, f)
           /\ Finish(OP_ADD, f, add(f.m, f.val))

ExecLD ==
    \E o \in Oracle :
        LET f == Fetch(o)
        IN /\ Turn(OP_LD, f)
           /\ Finish(OP_LD, f, ld(f.m, f.val, o))

ExecST ==
    \E o \in Oracle :
        LET f == Fetch(o)
        IN /\ Turn(OP_ST, f)
           /\ Finish(OP_ST, f, st(f.m, f.val, o))

ExecJSR ==
    \E o \in Oracle :
        LET f == Fetch(o)
        IN /\ Turn(OP_JSR, f)
           /\ Finish(OP_JSR, f, jsr(f.m, f.val))

ExecAND ==
    \E o \in Oracle :
        LET f == Fetch(o)
        IN /\ Turn(OP_AND, f)
           /\ Finish(OP_AND, f, and(f.m, f.val))

ExecLDR ==
    \E o \in Oracle :
        LET f == Fetch(o)
        IN /\ Turn(OP_LDR, f)
           /\ Finish(OP_LDR, f, ldr(f.m, f.val, o))

ExecSTR ==
    \E o \in Oracle :
        LET f == Fetch(o)
        IN /\ Turn(OP_STR, f)
           /\ Finish(OP_STR, f, str(f.m, f.val, o))

ExecNOT ==
    \E o \in Oracle :
        LET f == Fetch(o)
        IN /\ Turn(OP_NOT, f)
           /\ Finish(OP_NOT, f, not(f.m, f.val))

ExecLDI ==
    \E o \in Oracle :
        LET f == Fetch(o)
        IN /\ Turn(OP_LDI, f)
           /\ Finish(OP_LDI, f, ldi(f.m, f.val, o))

ExecSTI ==  \* case OP_STI calls str, as case OP_STR does
    \E o \in Oracle :
        LET f == Fetch(o)
        IN /\ Turn(OP_STI, f)
           /\ Finish(OP_STI, f, str(f.m, f.val, o))

ExecJMP ==
    \E o \in Oracle :
        LET f == Fetch(o)
        IN /\ Turn(OP_JMP, f)
           /\ Finish(OP_JMP, f, jmp(f.m, f.val))

ExecLEA ==
    \E o \in Oracle :
        LET f == Fetch(o)
        IN /\ Turn(OP_LEA, f)
           /\ Finish(OP_LEA, f, lea(f.m, f.val))

ExecTRAP ==
    \E o \in Oracle :
        LET f == Fetch(o)
        IN /\ Turn(OP_TRAP, f)
           /\ ~TrapWaits(f.m, f.val)
           /\ Finish(OP_TRAP, f, trap(f.m, f.val, o))

\* case OP_RES, case OP_RTI, default: abort() ends the process
Fault ==
    \E o \in Oracle, op \in {OP_RES, OP_RTI} :
        LET f == Fetch(o)
        IN /\ Turn(op, f)
           /\ Finish(op, f, f.m)

\* while(running) is false: restore_input_buffering(); return 0
Exit ==
    /\ phase = "loop"
    /\ running = 0
    /\ phase' = "exit"
    /\ UNCHANGED <<memory, reg, running, stdin, eof, stdout, instr, steps,
                   argn, image, loaded, keys>>

\* SIGINT while the loop runs: printf("\n"); exit(-2)
handle_interrupt ==
    /\ phase = "loop"
    /\ Set(putc(Machine, 10))
    /\ phase' = "interrupted"
    /\ UNCHANGED <<instr, steps, argn, image, loaded, keys>>

\* the console: a byte is typed, or the input is closed
KeyPress ==
    /\ phase = "loop"
    /\ ~eof
    /\ keys < MaxKeys
    /\ \E b \in Keys : stdin' = Append(stdin, b)
    /\ keys' = keys + 1
    /\ UNCHANGED <<memory, reg, running, eof, stdout, phase, instr, steps,
                   argn, image, loaded>>

CloseInput ==
    /\ phase = "loop"
    /\ ~eof
    /\ eof' = TRUE
    /\ UNCHANGED <<memory, reg, running, stdin, stdout, phase, instr, steps,
                   argn, image, loaded, keys>>

Next ==
    \/ LoadArg
    \/ Start
    \/ ExecBR
    \/ ExecADD
    \/ ExecLD
    \/ ExecST
    \/ ExecJSR
    \/ ExecAND
    \/ ExecLDR
    \/ ExecSTR
    \/ ExecNOT
    \/ ExecLDI
    \/ ExecSTI
    \/ ExecJMP
    \/ ExecLEA
    \/ ExecTRAP
    \/ Fault
    \/ Exit
    \/ handle_interrupt
    \/ KeyPress
    \/ CloseInput

Spec == Init /\ [][Next]_vars

----------------------------------------------------------------------------
(* Properties *)

\* the fields of an instruction word and the arithmetic of the instruction
\* set, stated without the operators of the implementation
OpOf(i) == i \div 4096
DR(i) == (i \div 512) % 8
SR1(i) == (i \div 64) % 8
SR2(i) == i % 8
ImmMode(i) == (i \div 32) % 2 = 1
Vector(i) == i % 256
\* the low n bits of i as a two's-complement number, modulo 2^16
SExt(i, n) ==
    LET v == i % (2 ^ n)
    IN IF v >= 2 ^ (n - 1) THEN (v - (2 ^ n)) % WORD ELSE v
FlagOf(v) == IF v = 0 THEN FL_ZRO ELSE IF v >= 32768 THEN FL_NEG ELSE FL_POS
GPR == 0 .. 7
Plain(a) == a < UINT16_MAX /\ a # MR_KBSR

\* this step is a loop iteration that executed a word of opcode op; the word
\* is instr', it was fetched at reg[R_PC], and the handler saw Word(reg[R_PC] + 1)
Executes(op) == steps' = steps + 1 /\ OpOf(instr') = op
NextPC == (reg[R_PC] + 1) % WORD

\* C1: an AND instruction sets DR to the bitwise and of SR1 and SR2 (register
\* mode) or of SR1 and the sign-extended imm5 (immediate mode), and COND to
\* the sign class of the new DR.
C1_AndIsBitwise ==
    [][Executes(OP_AND) =>
          /\ reg'[DR(instr')] =
                IF ImmMode(instr')
                THEN BitAnd(reg[SR1(instr')], SExt(instr', 5), 16)
                ELSE BitAnd(reg[SR1(instr')], reg[SR2(instr')], 16)
          /\ reg'[R_COND] = FlagOf(reg'[DR(instr')])]_vars

\* C2: a BR instruction fetched at a leaves PC = a + 1 + sext(offset9) when a
\* cond bit of the instruction matches COND, and PC = a + 1 otherwise.
C2_BrOffset ==
    [][Executes(OP_BR) =>
          reg'[R_PC] =
              IF BitAnd(DR(instr'), reg[R_COND], 16) # 0
              THEN (NextPC + SExt(instr', 9)) % WORD
              ELSE NextPC]_vars

\* C3: an STI instruction (opcode 11) writes SR to the address held in
\* memory[T], T = PC after the increment + sext(offset9), and changes no
\* other memory cell (T and the address it holds being plain cells).
C3_StiIndirect ==
    [][Executes(OP_STI) =>
          LET T == (NextPC + SExt(instr', 9)) % WORD
          IN (Plain(T) /\ Plain(Get(memory, T))) =>
                memory' = Put(memory, Get(memory, T), reg[DR(instr')])]_vars

\* C4: an ST instruction fetched at a writes SR to cell a + 1 + sext(offset9)
\* itself and leaves every other memory cell, every general-purpose
\* register and COND unchanged (the target being a plain cell).
C4_StDirect ==
    [][Executes(OP_ST) =>
          LET T == (NextPC + SExt(instr', 9)) % WORD
          IN Plain(T) =>
                /\ memory' = Put(memory, T, reg[DR(instr')])
                /\ \A r \in GPR \cup {R_COND} : reg'[r] = reg[r]]_vars

\* C5: a TRAP instruction whose vector is outside x20..x25 stops the
\* machine: after the step the loop is no longer running.
C5_InvalidTrapHalts ==
    [][(Executes(OP_TRAP) /\ Vector(instr') \notin TRAP_GETC .. TRAP_HALT) =>
          (running' = 0 \/ phase' # "loop")]_vars

\* C6: TRAP x25 clears the running flag; once the flag is clear the loop
\* fetches no instruction and no register or memory cell changes; the image
\* x3000: x1021 xF025 ends after exactly two instructions with PC = x3002.
C6_HaltIsTerminal ==
    /\ [][(Executes(OP_TRAP) /\ Vector(instr') = TRAP_HALT) =>
             running' = 0]_vars
    /\ [][(phase \in {"loop", "exit"} /\ running = 0) =>
             (steps' = steps /\ reg' = reg /\ memory' = memory
              /\ running' = 0)]_vars
    /\ []((image = ProgHalt /\ phase = "exit") =>
             (steps = 2 /\ reg[R_PC] = PC_START + 2))

C6_Witness ==
    /\ image = ProgHalt
    /\ phase = "exit"
    /\ instr = 61477
    /\ running = 0

\* C7: a fetched word of opcode 8 or 13 ends the loop as a fault: the step
\* changes no general-purpose register, COND, memory cell or output, and no
\* instruction is fetched afterwards.
C7_InvalidOpcodeFaults ==
    /\ [][(Executes(OP_RTI) \/ Executes(OP_RES)) =>
             /\ phase' = "aborted"
             /\ \A r \in GPR \cup {R_COND} : reg'[r] = reg[r]
             /\ memory' = memory
             /\ stdout' = stdout]_vars
    /\ [][phase = "aborted" => (steps' = steps /\ phase' = "aborted")]_vars

C7_Witness ==
    /\ phase = "aborted"
    /\ OpOf(instr) = OP_RTI
    /\ reg[R_R0] = 1
    /\ reg[R_PC] = PC_START + 2

\* C8: a TRAP instruction with a vector in x20..x25 fetched at a sets R7 to
\* a + 1.
C8_TrapSavesReturn ==
    [][(Executes(OP_TRAP) /\ Vector(instr') \in TRAP_GETC .. TRAP_HALT) =>
          reg'[R_R7] = NextPC]_vars

\* C9: an ADD instruction sets DR to SR1 + sext(imm5) (immediate mode) or to
\* SR1 + SR2 (register mode), modulo 2^16 and without a fault, also when DR
\* is a source register, and sets COND to the sign class of the new DR.
C9_AddWraps ==
    [][Executes(OP_ADD) =>
          /\ reg'[DR(instr')] =
                IF ImmMode(instr')
                THEN (reg[SR1(instr')] + SExt(instr', 5)) % WORD
                ELSE (reg[SR1(instr')] + reg[SR2(instr')]) % WORD
          /\ reg'[R_COND] = FlagOf(reg'[DR(instr')])
          /\ phase' = "loop"]_vars

\* ADD R0,R0,R0 with R0 = xFFFF has wrapped to xFFFE, COND = NEG
C9_Witness ==
    /\ instr = 4096
    /\ reg[R_R0] = 65534
    /\ reg[R_COND] = FL_NEG
    /\ steps = 2

\* the image of a stream: its origin and the number of words that follow
OriginOf(f) == 256 * f.bytes[1] + f.bytes[2]
WordsOf(f) == (Len(f.bytes) - 2) \div 2
Overflows(f) == f.open /\ Len(f.bytes) >= 2 /\ OriginOf(f) + WordsOf(f) > WORD

\* C10: loading an image with origin + word count > x10000 fails.
C10_OverflowFails == (argn > 0 /\ Overflows(image)) => loaded = 0

\* the k-th word (k from 1) of the image of stream f
ImageWord(f, k) == 256 * f.bytes[2 * k + 1] + f.bytes[2 * k + 2]
Fits(f) == f.open /\ Len(f.bytes) >= 2 /\ OriginOf(f) + WordsOf(f) <= WORD

\* C11: after the load of an image with origin + n <= x10000, also one whose
\* last word lands on xFFFF, memory[origin + i - 1] holds word i for every
\* i in 1..n.
C11_ImagePlaced ==
    (phase = "args" /\ argn > 0 /\ Fits(image)) =>
        \A k \in 1 .. WordsOf(image) :
            Get(memory, OriginOf(image) + k - 1) = ImageWord(image, k)

\* C12: a read of the keyboard status address xFE00 (here the second read of
\* an LDI) returns a word with bit 15 set and latches the pending byte as
\* keyboard data when the console has a byte ready, and returns 0 and
\* consumes nothing when no byte is ready.
C12_KeyboardStatus ==
    [][(Executes(OP_LDI)
        /\ Plain((NextPC + SExt(instr', 9)) % WORD)
        /\ Get(memory, (NextPC + SExt(instr', 9)) % WORD) = MR_KBSR) =>
          /\ stdin # <<>> =>
                /\ reg'[DR(instr')] >= 32768
                /\ stdin' = Tail(stdin)
                /\ Get(memory', MR_KBDR) % 256 = Head(stdin)
          /\ (stdin = <<>> /\ ~eof) =>
                /\ reg'[DR(instr')] = 0
                /\ stdin' = stdin]_vars

\* what a read of cell a yields: the cell, or for the word behind the array
\* the word rd found there
CellRead(a, rd) == IF a < UINT16_MAX THEN Get(memory, a) ELSE rd

\* C13: an LDI instruction fetched at a, with A = a + 1 + sext(offset9),
\* B = memory[A] and V = memory[B], A and B not the keyboard address, sets
\* DR = V and COND from V and changes no memory cell.
C13_LdiDoubleIndirect ==
    [][Executes(OP_LDI) =>
          LET A == (NextPC + SExt(instr', 9)) % WORD
          IN \E rd \in OobWords :
                LET B == CellRead(A, rd)
                    V == CellRead(B, rd)
                IN (A # MR_KBSR /\ B # MR_KBSR) =>
                      /\ reg'[DR(instr')] = V
                      /\ reg'[R_COND] = FlagOf(V)
                      /\ memory' = memory]_vars

\* LDI R4,#-2 at x3003 has loaded xF025 through the pointer at x3002
C13_Witness ==
    /\ image = ProgJump
    /\ instr = 43518
    /\ reg[4] = 61477
    /\ reg[R_COND] = FL_NEG

\* C14: sign_extend(value, bit_count), for a value whose bits above
\* bit_count - 1 are 0, is value when bit bit_count - 1 is 0 and
\* value - 2^bit_count modulo 2^16 when it is 1, and every call site in the
\* handlers passes such a value: here the calls made by add and and
\* (5 bits), by ldr and str (6), by br, ld, ldi, lea and st (9), by jsr (11).
C14_SignExtendContract ==
    [][steps' = steps + 1 =>
          /\ (OpOf(instr') \in {OP_ADD, OP_AND} /\ ImmMode(instr')) =>
                sign_extend(instr' % 32, 5) = SExt(instr', 5)
          /\ OpOf(instr') \in {OP_LDR, OP_STR, OP_STI} =>
                sign_extend(instr' % 64, 6) = SExt(instr', 6)
          /\ OpOf(instr') \in {OP_LD, OP_LDI, OP_LEA, OP_ST} =>
                sign_extend(instr' % 512, 9) = SExt(instr', 9)
          /\ (OpOf(instr') = OP_JSR /\ (instr' \div 2048) % 2 = 1) =>
                sign_extend(instr' % 2048, 11) = SExt(instr', 11)
          /\ OpOf(instr') = OP_BR =>
                /\ br_offset_field(instr') < 2 ^ 9
                /\ sign_extend(br_offset_field(instr'), 9) = SExt(instr', 9)]_vars

\* the address of the first zero word at or after p, or -1 when the address
\* space ends before one is found
RECURSIVE ZeroFrom(_, _)
ZeroFrom(p, rd) ==
    IF p > UINT16_MAX THEN -1
    ELSE IF CellRead(p, rd) = 0 THEN p
    ELSE ZeroFrom(p + 1, rd)

\* C15: TRAP x22 with R0 = p and the first zero word at or after p at p + k
\* appends to the console output exactly the low bytes of memory[p] ..
\* memory[p + k - 1] in address order, and changes no memory cell and no
\* general-purpose register or COND (R7 apart, which TRAP may set).
C15_PutsWritesString ==
    [][(Executes(OP_TRAP) /\ Vector(instr') = TRAP_PUTS) =>
          \E rd \in OobWords :
              LET p == reg[R_R0]
                  z == ZeroFrom(p, rd)
              IN z >= 0 =>
                    /\ stdout' = stdout \o
                          [j \in 1 .. (z - p) |-> CellRead(p + j - 1, rd) % 256]
                    /\ memory' = memory
                    /\ \A r \in (0 .. 6) \cup {R_COND} : reg'[r] = reg[r]]_vars

\* PUTS on 'H', 'i', 0 has written exactly H and i
C15_Witness ==
    /\ image = ProgPuts
    /\ instr = 61474
    /\ stdout = <<72, 105>>

\* C16: in every state of the execution loop, from the state in which PC has
\* been set to x3000 and no instruction has executed yet, COND is exactly
\* one of POS, ZRO, NEG.
C16_CondDomain ==
    phase = "loop" => reg[R_COND] \in {FL_POS, FL_ZRO, FL_NEG}

\* the opcodes whose handlers set a result register
ResultOps == {OP_ADD, OP_AND, OP_NOT, OP_LD, OP_LDI, OP_LDR, OP_LEA}

\* C17: COND changes only in steps that execute ADD, AND, NOT, LD, LDI, LDR
\* or LEA, and after such a step it is the sign class of the value just
\* written to DR; steps executing BR, JMP, JSR/JSRR, ST, STI, STR and TRAP
\* (GETC and IN included, which write R0) and all other steps leave COND
\* unchanged.
C17_CondTracksResult ==
    [][IF steps' = steps + 1 /\ OpOf(instr') \in ResultOps
       THEN reg'[R_COND] = FlagOf(reg'[DR(instr')])
       ELSE reg'[R_COND] = reg[R_COND]]_vars

\* GETC has put 'A' into R0 and COND is as it was at the start of the loop
C17_Witness ==
    /\ image = ProgIo
    /\ instr = 61472
    /\ reg[R_R0] = 65
    /\ reg[R_COND] = 0
    /\ steps = 1

\* C18: for every address a other than the keyboard address, the word a
\* store writes at a is the word a read of a returns afterwards, whatever
\* lies around the memory array: after a step that executes STR with
\* a = BaseR + sext(offset6), a read of a returns the stored register.
C18_CellsHoldWrites ==
    [][Executes(OP_STR) =>
          LET a == (reg[SR1(instr')] + SExt(instr', 6)) % WORD
          IN a # MR_KBSR =>
                \A o \in Oracle : mem_read(Machine', a, o).val = reg[DR(instr')]]_vars

\* bit 11 of a JSR word selects the PC-relative form
LongFlag(i) == (i \div 2048) % 2 = 1

\* C19: a JSR/JSRR fetched at a sets R7 = a + 1 first and then the new PC:
\* a + 1 + sext(offset11) when bit 11 is set, otherwise BaseR as it is after
\* the write of R7, so that JSRR R7 leaves PC = a + 1.
C19_JsrSavesFirst ==
    [][Executes(OP_JSR) =>
          /\ reg'[R_R7] = NextPC
          /\ reg'[R_PC] = IF LongFlag(instr')
                          THEN (NextPC + SExt(instr', 11)) % WORD
                          ELSE IF SR1(instr') = R_R7 THEN NextPC
                               ELSE reg[SR1(instr')]]_vars

\* JSRR R7 at x3001 with R7 = 3 has left PC = R7 = x3002
C19_Witness ==
    /\ image = ProgJsrr
    /\ instr = 16832
    /\ steps = 2
    /\ reg[R_R7] = 12290
    /\ reg[R_PC] = 12290

\* the opcodes whose handlers assign PC
JumpOps == {OP_BR, OP_JMP, OP_JSR}

\* C20: register fields select R0..R7 only, so a step that executes ADD, AND,
\* NOT, LD, LDI, LDR, LEA, ST, STI or STR fetched at a ends with PC = a + 1;
\* PC is changed beyond that only by BR, JMP and JSR/JSRR steps, and no step
\* of the loop that executes no instruction changes PC.
C20_PcFrame ==
    [][/\ DOMAIN reg' = DOMAIN reg
       /\ steps' = steps + 1 /\ OpOf(instr') \notin JumpOps
              => reg'[R_PC] = NextPC
       /\ steps' = steps /\ phase = "loop"
              => reg'[R_PC] = reg[R_PC]]_vars

\* STR R3,R1,#1 fetched at x3003 has stored R3 and left PC = x3004
C20_Witness ==
    /\ image = ProgLoad
    /\ instr = 30273
    /\ steps = 4
    /\ reg[R_PC] = 12292
    /\ Get(memory, 12294) = reg[DR(instr)]

====
